---- MODULE Spec2Model ----
(***************************************************************************)
(* A model of the Content_Repurposer pipeline:                             *)
(*   - generate_content.generate_platform_content, step by step (entry     *)
(*     checks, the platform loop, the post loop, one HTTP request per      *)
(*     post), called directly with arbitrary arguments (SpecGen);          *)
(*   - app.py: the start-up gate on the API key secret and main()'s        *)
(*     try / except / finally around the stages of one request (Spec).     *)
(* Strings whose content the code inspects (language, API key, response    *)
(* text) are sequences of one-character strings.                           *)
(***************************************************************************)
EXTENDS Integers, Sequences, FiniteSets, TLC

\* ------------------------------------------------------------------ bounds
\* Longest `platforms` list passed to a direct call.
MaxPlatforms == 2
\* Largest post count of a direct call and of an edited cell of the form.
MaxCount == 2
\* Most calls of one invocation that the remote API lets fail.
MaxFaults == 2

\* --------------------------------------------------------------- constants
\* generate_content.py:112  len(api_key.strip()) < 10
MinKeyLen == 10
\* generate_content.py:141  response.status_code == 200
HTTP_OK == 200

\* ------------------------------------------------------------ Python values
\* An optional argument: None, or a value.
None(empty) == [given |-> FALSE, val |-> empty]
Some(v) == [given |-> TRUE, val |-> v]

\* A post count as the form hands it over: an int, or the float NaN of a
\* cleared cell (range() accepts only the former).
PyInt(n) == [isint |-> TRUE, n |-> n]
PyNaN == [isint |-> FALSE, n |-> 0]

\* Python dict literal {} as a function with empty domain.
EmptyDict == [k \in {} |-> 0]

Range(s) == {s[i] : i \in 1..Len(s)}

\* str.lower(), per character.
ToLower ==
    [A |-> "a", B |-> "b", C |-> "c", D |-> "d", E |-> "e", F |-> "f",
     G |-> "g", H |-> "h", I |-> "i", J |-> "j", K |-> "k", L |-> "l",
     M |-> "m", N |-> "n", O |-> "o", P |-> "p", Q |-> "q", R |-> "r",
     S |-> "s", T |-> "t", U |-> "u", V |-> "v", W |-> "w", X |-> "x",
     Y |-> "y", Z |-> "z"]
LowerChar(c) == IF c \in DOMAIN ToLower THEN ToLower[c] ELSE c
Lower(s) == [i \in 1..Len(s) |-> LowerChar(s[i])]

\* str.strip(): leading and trailing whitespace removed.
\* str.isspace(): the 29 code points str.strip() removes. A character that
\* has no escape in a string is written by its code point, "U+3000" being
\* the one character U+3000.
Whitespace ==
    { "\t", "\n", "U+000B", "\f", "\r", "U+001C",
      "U+001D", "U+001E", "U+001F", " ", "U+0085", "U+00A0",
      "U+1680", "U+2000", "U+2001", "U+2002", "U+2003", "U+2004",
      "U+2005", "U+2006", "U+2007", "U+2008", "U+2009", "U+200A",
      "U+2028", "U+2029", "U+202F", "U+205F", "U+3000" }
RECURSIVE LStrip(_)
LStrip(s) ==
    IF s # <<>> /\ Head(s) \in Whitespace THEN LStrip(Tail(s)) ELSE s
RECURSIVE RStrip(_)
RStrip(s) ==
    IF s # <<>> /\ s[Len(s)] \in Whitespace
    THEN RStrip(SubSeq(s, 1, Len(s) - 1)) ELSE s
Strip(s) == RStrip(LStrip(s))

\* ------------------------------------------------- generate_content tables
\* Keys of PLATFORM_PROMPTS, in dict order.
PLATFORM_KEYS == <<"instagram", "x", "linkedin", "facebook">>
PLATFORM_PROMPTS == Range(PLATFORM_KEYS)

\* Keys of LANGUAGE_SYSTEM_PROMPTS.
LANGUAGE_SYSTEM_PROMPTS ==
    { <<"e","n","g","l","i","s","h">>,
      <<"s","p","a","n","i","s","h">>,
      <<"f","r","e","n","c","h">>,
      <<"g","e","r","m","a","n">>,
      <<"p","o","r","t","u","g","u","e","s","e">>,
      <<"i","t","a","l","i","a","n">> }

\* ------------------------------------------------------------------ inputs
\* Platform identifiers handed to a direct call: two supported, one not.
PlatformInputs == {"instagram", "x", "tiktok"}
PlatformLists == UNION {[1..n -> PlatformInputs] : n \in 0..MaxPlatforms}
PlatformArgs == {None(<<>>)} \cup {Some(l) : l \in PlatformLists}

\* post_counts of a direct call: None, or a dict over some supported
\* platforms with values 0..MaxCount.
CountKeys == {"instagram", "x"}
CountDicts ==
    UNION {[D -> {PyInt(n) : n \in 0..MaxCount}] : D \in SUBSET CountKeys}
CountArgs == {None(EmptyDict)} \cup {Some(d) : d \in CountDicts}

LanguageInputs ==
    { <<"E","n","g","l","i","s","h">>,
      <<"k","l","i","n","g","o","n">> }

\* os.environ as a direct call finds it: each variable unset, empty, too
\* short, blank or usable.
GoodKey == <<"s","k","-","o","r","-","v","1","-","a","b">>
ShortKey == <<"s","k","-","o","r">>
BlankKey == <<" "," "," "," "," "," "," "," "," "," "," ">>
Environ(k1, k2) == [OPENROUTER_API_KEY |-> k1, OPENAI_API_KEY |-> k2]
EnvInputs ==
    { Environ(None(<<>>), None(<<>>)),
      Environ(Some(<<>>), None(<<>>)),
      Environ(Some(ShortKey), Some(GoodKey)),
      Environ(Some(BlankKey), None(<<>>)),
      Environ(Some(GoodKey), None(<<>>)),
      Environ(Some(<<>>), Some(GoodKey)) }

\* What one requests.post can come to: a 200 with content, a non-200, or a
\* raised exception (timeout).
OkResponse ==
    [raised |-> FALSE, status |-> HTTP_OK, wellformed |-> TRUE,
     content |-> <<" ", "U+3000", "P", "o", "s", "t", "\r", "\n">>]
ErrorResponse ==
    [raised |-> FALSE, status |-> 500, wellformed |-> FALSE, content |-> <<>>]
TimeoutResponse ==
    [raised |-> TRUE, status |-> 0, wellformed |-> FALSE, content |-> <<>>]
Responses == {OkResponse, ErrorResponse, TimeoutResponse}
\* Lines 141-154: the call ended in the else branch or in the except branch.
IsFault(r) == r.raised \/ r.status # HTTP_OK \/ ~r.wellformed

\* ------------------------------------------------------------------- state
VARIABLES
    env,                \* os.environ: OPENROUTER_API_KEY, OPENAI_API_KEY
    a_platforms,        \* argument platforms (optional list)
    a_language,         \* argument language
    a_post_counts,      \* argument post_counts (optional dict)
    gpc,                \* position inside generate_platform_content
    platforms,          \* local platforms after defaulting
    post_counts,        \* local post_counts after defaulting
    api_key,            \* local api_key
    pidx,               \* position of the platform loop in platforms
    num_posts,          \* local num_posts
    platform_posts,     \* local platform_posts
    platform_content,   \* local platform_content (dict)
    gen_result,         \* the returned dict
    gen_error,          \* the exception raised out of the function
    requests,           \* every requests.post issued, in order
    responses,          \* what each of them came to, in order
    outstanding         \* requests issued and not yet answered

gen_vars ==
    <<env, a_platforms, a_language, a_post_counts, gpc, platforms,
      post_counts, api_key, pidx, num_posts, platform_posts,
      platform_content, gen_result, gen_error, requests, responses,
      outstanding>>

VARIABLES
    secret_key,         \* st.secrets.get("OPENROUTER_API_KEY")
    stage,              \* position of the script run of app.py
    input_source,       \* the radio button
    video_url,          \* the text input
    uploaded_file,      \* the file uploader (optional)
    language,           \* the select box
    edited_counts,      \* edited_df as the dict main() builds from it
    disk,               \* the download directory: file -> absent/empty/data
    audio_path,         \* main()'s audio_path (optional)
    transcription,      \* main()'s transcription (optional)
    outcome,            \* what the run showed: none / present / error
    trace,              \* the stages started, in order
    failed,             \* the stages that failed
    cleanup_calls,      \* arguments of every cleanup_audio_file call
    written,            \* files this run created in the directory
    ui,                 \* st.error / st.warning / st.toast messages shown
    whisper_calls,      \* whisper.load_model / model.transcribe calls
    escaped             \* an exception left main()

app_vars ==
    <<secret_key, stage, input_source, video_url, uploaded_file, language,
      edited_counts, disk, audio_path, transcription, outcome, trace,
      failed, cleanup_calls, written, ui, whisper_calls, escaped>>

VARIABLES
    ydl_calls,          \* yt_dlp calls made: extract_info, download
    dir_exists,         \* the download directory exists
    call_error,         \* the exception a direct call of a stage function raised
    a_input_file        \* argument input_file of a direct convert_to_mp3 call

ext_vars == <<ydl_calls, dir_exists, call_error, a_input_file>>

vars == <<gen_vars, app_vars, ext_vars>>

\* ------------------------------------------------ generate_platform_content
\* dict.get(key, default)
DictGet(d, k, default) == IF k \in DOMAIN d THEN d[k] ELSE default

\* d[k] = v
DictSet(d, k, v) == [x \in DOMAIN d \cup {k} |-> IF x = k THEN v ELSE d[x]]

\* One entry of a platform's list.
Entry(kind, status, text) == [kind |-> kind, status |-> status, text |-> text]
Unavailable == Entry("Content generation unavailable", 0, <<>>)
InvalidKey == Entry("Content generation unavailable - Invalid API key", 0, <<>>)

\* Python truthiness of os.getenv(): None and "" are falsy.
Truthy(k) == k.given /\ k.val # <<>>

\* os.getenv("OPENROUTER_API_KEY") or os.getenv("OPENAI_API_KEY")
RetrieveKey(e) ==
    IF Truthy(e.OPENROUTER_API_KEY) THEN e.OPENROUTER_API_KEY
    ELSE e.OPENAI_API_KEY

\* Lines 141-154: what one call appends to platform_posts.
PostEntry(r) ==
    IF r.raised THEN Entry("Exception generating content", 0, <<"Timeout">>)
    ELSE IF r.status = HTTP_OK
         THEN IF r.wellformed
              THEN Entry("text", 0, Strip(r.content))
              ELSE Entry("Exception generating content", 0, <<"KeyError">>)
         ELSE Entry("Content generation failed", r.status, <<>>)

Faults == Cardinality({i \in 1..Len(responses) : IsFault(responses[i])})

GenIdle ==
    /\ platforms = <<>> /\ post_counts = EmptyDict /\ api_key = None(<<>>)
    /\ pidx = 0 /\ num_posts = 0 /\ platform_posts = <<>>
    /\ platform_content = EmptyDict /\ gen_result = EmptyDict
    /\ gen_error = "none" /\ requests = <<>> /\ responses = <<>>
    /\ outstanding = 0

\* GenEnter with the credential looked up before the arguments are validated.
GenEnterKeyFirst ==
    /\ gpc = "entry"
    /\ LET ps == IF a_platforms.given THEN a_platforms.val ELSE PLATFORM_KEYS
           pc == IF a_post_counts.given THEN a_post_counts.val
                 ELSE [p \in Range(ps) |-> PyInt(1)]
           key == RetrieveKey(env)
       IN  /\ platforms' = ps
           /\ post_counts' = pc
           /\ IF ~Truthy(key)
              THEN /\ gpc' = "returned"
                   /\ gen_result' = [p \in Range(ps) |-> <<Unavailable>>]
                   /\ UNCHANGED <<api_key, gen_error, pidx>>
              ELSE IF Range(ps) \ PLATFORM_PROMPTS # {}
                      \/ Lower(a_language) \notin LANGUAGE_SYSTEM_PROMPTS
              THEN /\ gpc' = "raised"
                   /\ gen_error' = "ValueError"
                   /\ UNCHANGED <<api_key, gen_result, pidx>>
              ELSE /\ api_key' = key
                   /\ gen_error' = gen_error
                   /\ IF Len(Strip(key.val)) < MinKeyLen
                      THEN /\ gpc' = "returned"
                           /\ gen_result' = [p \in Range(ps) |-> <<InvalidKey>>]
                           /\ pidx' = pidx
                      ELSE /\ gpc' = "for_platform"
                           /\ gen_result' = gen_result
                           /\ pidx' = 1
    /\ UNCHANGED <<env, a_platforms, a_language, a_post_counts, num_posts,
                   platform_posts, platform_content, requests, responses,
                   outstanding>>
    /\ UNCHANGED app_vars
    /\ UNCHANGED ext_vars

\* Lines 70-117: defaults, validation, key retrieval, the two fallbacks.
GenEnter ==
    /\ gpc = "entry"
    /\ LET ps == IF a_platforms.given THEN a_platforms.val ELSE PLATFORM_KEYS
           pc == IF a_post_counts.given THEN a_post_counts.val
                 ELSE [p \in Range(ps) |-> PyInt(1)]
           key == RetrieveKey(env)
       IN  /\ platforms' = ps
           /\ post_counts' = pc
           /\ IF Range(ps) \ PLATFORM_PROMPTS # {}
                 \/ Lower(a_language) \notin LANGUAGE_SYSTEM_PROMPTS
              THEN /\ gpc' = "raised"
                   /\ gen_error' = "ValueError"
                   /\ UNCHANGED <<api_key, gen_result, pidx>>
              ELSE /\ api_key' = key
                   /\ gen_error' = gen_error
                   /\ IF ~Truthy(key)
                      THEN /\ gpc' = "returned"
                           /\ gen_result' = [p \in Range(ps) |-> <<Unavailable>>]
                           /\ pidx' = pidx
                      ELSE IF Len(Strip(key.val)) < MinKeyLen
                      THEN /\ gpc' = "returned"
                           /\ gen_result' = [p \in Range(ps) |-> <<InvalidKey>>]
                           /\ pidx' = pidx
                      ELSE /\ gpc' = "for_platform"
                           /\ gen_result' = gen_result
                           /\ pidx' = 1
    /\ UNCHANGED <<env, a_platforms, a_language, a_post_counts, num_posts,
                   platform_posts, platform_content, requests, responses,
                   outstanding>>
    /\ UNCHANGED app_vars
    /\ UNCHANGED ext_vars

\* Lines 118-123: the next platform; range(num_posts) is evaluated here.
GenForPlatform ==
    /\ gpc = "for_platform"
    /\ pidx <= Len(platforms)
    /\ LET n == DictGet(post_counts, platforms[pidx], PyInt(1))
       IN  IF n.isint
           THEN /\ num_posts' = n.n
                /\ platform_posts' = <<>>
                /\ gpc' = "for_post"
                /\ gen_error' = gen_error
           ELSE /\ gpc' = "raised"
                /\ gen_error' = "TypeError"
                /\ UNCHANGED <<num_posts, platform_posts>>
    /\ UNCHANGED <<env, a_platforms, a_language, a_post_counts, platforms,
                   post_counts, api_key, pidx, platform_content, gen_result,
                   requests, responses, outstanding>>
    /\ UNCHANGED app_vars
    /\ UNCHANGED ext_vars

\* Lines 124-138: one iteration of the post loop issues one requests.post.
GenSend ==
    /\ gpc = "for_post"
    /\ Len(platform_posts) < num_posts
    /\ requests' = Append(requests,
            [pos |-> pidx, platform |-> platforms[pidx],
             post |-> Len(platform_posts) + 1,
             system |-> Lower(a_language)])
    /\ outstanding' = outstanding + 1
    /\ gpc' = "awaiting"
    /\ UNCHANGED <<env, a_platforms, a_language, a_post_counts, platforms,
                   post_counts, api_key, pidx, num_posts, platform_posts,
                   platform_content, gen_result, gen_error, responses>>
    /\ UNCHANGED app_vars
    /\ UNCHANGED ext_vars

\* GenReceive with the new entry put in front of the list.
GenReceivePrepends(r) ==
    /\ gpc = "awaiting"
    /\ IsFault(r) => Faults < MaxFaults
    /\ responses' = Append(responses, r)
    /\ outstanding' = outstanding - 1
    /\ platform_posts' = <<PostEntry(r)>> \o platform_posts
    /\ gpc' = "for_post"
    /\ UNCHANGED <<env, a_platforms, a_language, a_post_counts, platforms,
                   post_counts, api_key, pidx, num_posts, platform_content,
                   gen_result, gen_error, requests>>
    /\ UNCHANGED app_vars
    /\ UNCHANGED ext_vars

\* GenReceive with a failed call ending the whole batch.
GenReceiveAborts(r) ==
    /\ gpc = "awaiting"
    /\ IsFault(r) => Faults < MaxFaults
    /\ responses' = Append(responses, r)
    /\ outstanding' = outstanding - 1
    /\ IF IsFault(r)
       THEN /\ gpc' = "raised"
            /\ gen_error' = "RequestException"
            /\ platform_posts' = platform_posts
       ELSE /\ gpc' = "for_post"
            /\ gen_error' = gen_error
            /\ platform_posts' = Append(platform_posts, PostEntry(r))
    /\ UNCHANGED <<env, a_platforms, a_language, a_post_counts, platforms,
                   post_counts, api_key, pidx, num_posts, platform_content,
                   gen_result, requests>>
    /\ UNCHANGED app_vars
    /\ UNCHANGED ext_vars

\* GenReceive with a failed call tried again instead of recorded.
GenReceiveRetries(r) ==
    /\ gpc = "awaiting"
    /\ IsFault(r) => Faults < MaxFaults
    /\ responses' = Append(responses, r)
    /\ outstanding' = outstanding - 1
    /\ platform_posts' =
            IF IsFault(r) THEN platform_posts
            ELSE Append(platform_posts, PostEntry(r))
    /\ gpc' = "for_post"
    /\ UNCHANGED <<env, a_platforms, a_language, a_post_counts, platforms,
                   post_counts, api_key, pidx, num_posts, platform_content,
                   gen_result, gen_error, requests>>
    /\ UNCHANGED app_vars
    /\ UNCHANGED ext_vars

\* Lines 138-154: the call returns or raises; one entry is appended.
GenReceive(r) ==
    /\ gpc = "awaiting"
    /\ IsFault(r) => Faults < MaxFaults
    /\ responses' = Append(responses, r)
    /\ outstanding' = outstanding - 1
    /\ platform_posts' = Append(platform_posts, PostEntry(r))
    /\ gpc' = "for_post"
    /\ UNCHANGED <<env, a_platforms, a_language, a_post_counts, platforms,
                   post_counts, api_key, pidx, num_posts, platform_content,
                   gen_result, gen_error, requests>>
    /\ UNCHANGED app_vars
    /\ UNCHANGED ext_vars

\* Line 156: platform_content[platform] = platform_posts
GenEndPlatform ==
    /\ gpc = "for_post"
    /\ Len(platform_posts) >= num_posts
    /\ platform_content' =
            DictSet(platform_content, platforms[pidx], platform_posts)
    /\ pidx' = pidx + 1
    /\ gpc' = "for_platform"
    /\ UNCHANGED <<env, a_platforms, a_language, a_post_counts, platforms,
                   post_counts, api_key, num_posts, platform_posts,
                   gen_result, gen_error, requests, responses, outstanding>>
    /\ UNCHANGED app_vars
    /\ UNCHANGED ext_vars

\* Line 158: return platform_content
GenReturn ==
    /\ gpc = "for_platform"
    /\ pidx > Len(platforms)
    /\ gen_result' = platform_content
    /\ gpc' = "returned"
    /\ UNCHANGED <<env, a_platforms, a_language, a_post_counts, platforms,
                   post_counts, api_key, pidx, num_posts, platform_posts,
                   platform_content, gen_error, requests, responses,
                   outstanding>>
    /\ UNCHANGED app_vars
    /\ UNCHANGED ext_vars

\* ------------------------------------------------------------ files, inputs
File(stem, ext) == [stem |-> stem, ext |-> ext]
NoFile == File("", "")
\* A file left by an earlier run, the download before and after conversion,
\* and an upload.
OldMp3 == File("old", "mp3")
ClipMp3 == File("clip", "mp3")
ClipRaw == File("clip", "webm")
TalkWav == File("talk", "wav")
Files == {OldMp3, ClipMp3, ClipRaw, TalkWav}
EmptyDir == [f \in Files |-> "absent"]
InitialDisks == {[EmptyDir EXCEPT ![OldMp3] = c] : c \in {"absent", "empty", "data"}}

\* URLs, as the sequence of their parts: scheme, host, "/", the rest.
UrlInputs ==
    { <<>>,
      <<"https://", "www.youtube.com", "/", "watch?v=1">>,
      <<"https://", "example.com", "/", "video">> }
UploadInputs == {None(NoFile), Some(TalkWav)}
\* Only the widget of the chosen source is on the page.
SourceInputs ==
    {[src |-> "Video/Audio URL", url |-> u, file |-> None(NoFile)] : u \in UrlInputs}
    \cup {[src |-> "Upload File", url |-> <<>>, file |-> f] : f \in UploadInputs}

\* The select box offers the keys of LANGUAGE_SYSTEM_PROMPTS.
AppLanguages == {<<"e","n","g","l","i","s","h">>, <<"s","p","a","n","i","s","h">>}

\* edited_df as a dict: one post per platform, with at most one cell edited
\* to 0..MaxCount or cleared.
EditedPlatforms == {"instagram", "linkedin"}
DefaultCounts == [p \in PLATFORM_PROMPTS |-> PyInt(1)]
AppCounts ==
    {DefaultCounts} \cup
    {[DefaultCounts EXCEPT ![p] = c] :
        p \in EditedPlatforms, c \in {PyInt(n) : n \in 0..MaxCount} \cup {PyNaN}}

SecretInputs == {None(<<>>), Some(<<>>), Some(GoodKey)}
AppEnvInputs ==
    { Environ(None(<<>>), None(<<>>)),
      Environ(Some(ShortKey), None(<<>>)),
      Environ(Some(GoodKey), None(<<>>)) }

\* -------------------------------------------------------- audio_download.py
\* str.startswith: the prefix is the string's beginning.
StartsWith(s, prefix) ==
    /\ Len(s) >= Len(prefix)
    /\ SubSeq(s, 1, Len(prefix)) = prefix

\* validate_youtube_url: url.startswith((...)).
validate_youtube_url(url) ==
    \/ StartsWith(url, <<"https://", "www.youtube.com", "/">>)
    \/ StartsWith(url, <<"https://", "youtu.be", "/">>)

\* What yt_dlp can do with a valid URL.
DownloadOutcomes ==
    {"extract_raises", "extract_none", "download_raises",
     "postprocess_raises", "mp3_written", "empty_mp3_written"}

\* The directory after ydl.extract_info and ydl.download.
AfterDownload(dsk, o) ==
    IF o = "postprocess_raises" THEN [dsk EXCEPT ![ClipRaw] = "data"]
    ELSE IF o = "mp3_written" THEN [dsk EXCEPT ![ClipMp3] = "data"]
    ELSE IF o = "empty_mp3_written" THEN [dsk EXCEPT ![ClipMp3] = "empty"]
    ELSE dsk

WrittenBy(o) ==
    IF o = "postprocess_raises" THEN {ClipRaw}
    ELSE IF o \in {"mp3_written", "empty_mp3_written"} THEN {ClipMp3}
    ELSE {}

\* Lines 79-86: the files the scan of os.listdir can return.
Mp3Candidates(dsk) == {f \in Files : f.ext = "mp3" /\ dsk[f] = "data"}

\* Lines 79-86: the scan returns the first non-empty .mp3 of the listing;
\* `pick` is the file listed first, and when it is not such a file the scan
\* goes on to one that is.
FirstListed(candidates, pick) ==
    IF pick \in candidates THEN pick ELSE CHOOSE f \in candidates : TRUE

\* Lines 96-104: _download_progress toasts when a download has finished.
ProgressToasts(o) ==
    IF o \in {"postprocess_raises", "mp3_written", "empty_mp3_written"}
    THEN <<"Download complete, converting...">>
    ELSE <<>>

\* Lines 69 and 76: the yt_dlp calls made before the outcome shows.
YdlCalls(o) ==
    IF o \in {"extract_raises", "extract_none"} THEN <<"extract_info">>
    ELSE <<"extract_info", "download">>

\* download_youtube_audio with os.makedirs moved above the validation.
download_youtube_audio_mkdir_first(url, dsk, o, pick) ==
    IF ~validate_youtube_url(url)
    THEN [raised |-> TRUE, error |-> "ValueError", path |-> NoFile,
          disk |-> dsk, wrote |-> {}, ui |-> <<>>, ydl |-> <<>>,
          makedirs |-> TRUE]
    ELSE IF o \in {"extract_raises", "download_raises", "postprocess_raises"}
    THEN [raised |-> TRUE, error |-> "DownloadError", path |-> NoFile,
          disk |-> AfterDownload(dsk, o), wrote |-> WrittenBy(o),
          ui |-> ProgressToasts(o) \o <<"Error downloading audio">>,
          ydl |-> YdlCalls(o), makedirs |-> TRUE]
    ELSE IF o = "extract_none"
    THEN [raised |-> TRUE, error |-> "ValueError", path |-> NoFile,
          disk |-> dsk, wrote |-> {},
          ui |-> <<"Error downloading audio">>, ydl |-> YdlCalls(o),
          makedirs |-> TRUE]
    ELSE IF Mp3Candidates(AfterDownload(dsk, o)) # {}
    THEN [raised |-> FALSE, error |-> "none",
          path |-> FirstListed(Mp3Candidates(AfterDownload(dsk, o)), pick),
          disk |-> AfterDownload(dsk, o), wrote |-> WrittenBy(o),
          ui |-> ProgressToasts(o), ydl |-> YdlCalls(o), makedirs |-> TRUE]
    ELSE [raised |-> TRUE, error |-> "FileNotFoundError", path |-> NoFile,
          disk |-> AfterDownload(dsk, o), wrote |-> WrittenBy(o),
          ui |-> ProgressToasts(o) \o <<"Error downloading audio">>,
          ydl |-> YdlCalls(o), makedirs |-> TRUE]

\* download_youtube_audio(url): the exception raised or the path returned,
\* the directory afterwards, the files written, the messages shown. `pick`
\* is the file os.listdir happens to list first.\* makedirs: line 39 ran; ydl: the yt_dlp calls made.
download_youtube_audio(url, dsk, o, pick) ==
    IF ~validate_youtube_url(url)
    THEN [raised |-> TRUE, error |-> "ValueError", path |-> NoFile,
          disk |-> dsk, wrote |-> {}, ui |-> <<>>, ydl |-> <<>>,
          makedirs |-> FALSE]
    ELSE IF o \in {"extract_raises", "download_raises", "postprocess_raises"}
    THEN [raised |-> TRUE, error |-> "DownloadError", path |-> NoFile,
          disk |-> AfterDownload(dsk, o), wrote |-> WrittenBy(o),
          ui |-> ProgressToasts(o) \o <<"Error downloading audio">>,
          ydl |-> YdlCalls(o), makedirs |-> TRUE]
    ELSE IF o = "extract_none"
    THEN [raised |-> TRUE, error |-> "ValueError", path |-> NoFile,
          disk |-> dsk, wrote |-> {},
          ui |-> <<"Error downloading audio">>, ydl |-> YdlCalls(o),
          makedirs |-> TRUE]
    ELSE IF Mp3Candidates(AfterDownload(dsk, o)) # {}
    THEN [raised |-> FALSE, error |-> "none",
          path |-> FirstListed(Mp3Candidates(AfterDownload(dsk, o)), pick),
          disk |-> AfterDownload(dsk, o), wrote |-> WrittenBy(o),
          ui |-> ProgressToasts(o), ydl |-> YdlCalls(o), makedirs |-> TRUE]
    ELSE [raised |-> TRUE, error |-> "FileNotFoundError", path |-> NoFile,
          disk |-> AfterDownload(dsk, o), wrote |-> WrittenBy(o),
          ui |-> ProgressToasts(o) \o <<"Error downloading audio">>,
          ydl |-> YdlCalls(o), makedirs |-> TRUE]

\* What ffmpeg and os.remove can do in convert_to_mp3.
ConvertOutcomes ==
    {"ffmpeg_missing", "ffmpeg_raises", "ffmpeg_aborts", "remove_raises",
     "converted"}

\* convert_to_mp3(input_file), lines 113-156: the output is the input's name
\* with .mp3 in the output directory; the input is removed after a
\* conversion; every exception is shown with st.error and re-raised.
convert_to_mp3(input_file, dsk, o) ==
    LET output_file == File(input_file.stem, "mp3")
    IN  IF o = "ffmpeg_missing"
        THEN [raised |-> TRUE, error |-> "FileNotFoundError", path |-> NoFile,
              disk |-> dsk, wrote |-> {},
              ui |-> <<"Unexpected error during conversion">>]
        ELSE IF dsk[input_file] = "absent" \/ output_file = input_file
                \/ o = "ffmpeg_raises"
        THEN [raised |-> TRUE, error |-> "ffmpeg.Error", path |-> NoFile,
              disk |-> dsk, wrote |-> {},
              ui |-> <<"FFmpeg conversion error">>]
        ELSE IF o = "ffmpeg_aborts"
        THEN [raised |-> TRUE, error |-> "ffmpeg.Error", path |-> NoFile,
              disk |-> [dsk EXCEPT ![output_file] = "empty"],
              wrote |-> {output_file},
              ui |-> <<"FFmpeg conversion error">>]
        ELSE IF o = "remove_raises"
        THEN [raised |-> TRUE, error |-> "OSError", path |-> NoFile,
              disk |-> [dsk EXCEPT ![output_file] = "data"],
              wrote |-> {output_file},
              ui |-> <<"Unexpected error during conversion">>]
        ELSE [raised |-> FALSE, error |-> "none", path |-> output_file,
              disk |-> [dsk EXCEPT ![output_file] = "data",
                                   ![input_file] = "absent"],
              wrote |-> {output_file}, ui |-> <<>>]

\* ------------------------------------------------------------------ app.py
SaveOutcomes == {"open_raises", "write_raises", "saved"}

\* save_uploaded_file: the path, or None after st.error.
save_uploaded_file(file, dsk, o) ==
    IF o = "open_raises"
    THEN [path |-> None(NoFile), disk |-> dsk, wrote |-> {},
          ui |-> <<"Error saving file">>]
    ELSE IF o = "write_raises"
    THEN [path |-> None(NoFile), disk |-> [dsk EXCEPT ![file] = "empty"],
          wrote |-> {file}, ui |-> <<"Error saving file">>]
    ELSE [path |-> Some(file), disk |-> [dsk EXCEPT ![file] = "data"],
          wrote |-> {file}, ui |-> <<>>]

\* cleanup_audio_file without its try / except: a failed os.remove raises.
cleanup_audio_file_unguarded(path, dsk, remove_ok) ==
    IF dsk[path] = "absent"
    THEN [disk |-> dsk, ui |-> <<>>, raised |-> FALSE]
    ELSE IF remove_ok
    THEN [disk |-> [dsk EXCEPT ![path] = "absent"],
          ui |-> <<"Temporary audio file deleted">>, raised |-> FALSE]
    ELSE [disk |-> dsk, ui |-> <<>>, raised |-> TRUE]

\* cleanup_audio_file: os.remove inside try / except Exception.
cleanup_audio_file(path, dsk, remove_ok) ==
    IF dsk[path] = "absent"
    THEN [disk |-> dsk, ui |-> <<>>, raised |-> FALSE]
    ELSE IF remove_ok
    THEN [disk |-> [dsk EXCEPT ![path] = "absent"],
          ui |-> <<"Temporary audio file deleted">>, raised |-> FALSE]
    ELSE [disk |-> dsk, ui |-> <<"Could not delete audio file">>,
          raised |-> FALSE]

\* ----------------------------------------------------------- transcribe.py
TranscribeOutcomes == {"load_raises", "transcribe_raises", "transcribed"}

\* transcribe_audio with whisper.load_model moved above the existence check.
transcribe_audio_loads_first(path, dsk, o) ==
    IF ~path.given
    THEN [raised |-> TRUE, error |-> "TypeError", calls |-> <<"load_model">>]
    ELSE IF dsk[path.val] = "absent"
    THEN [raised |-> TRUE, error |-> "FileNotFoundError",
          calls |-> <<"load_model">>]
    ELSE IF o = "load_raises"
    THEN [raised |-> TRUE, error |-> "RuntimeError",
          calls |-> <<"load_model">>]
    ELSE IF o = "transcribe_raises"
    THEN [raised |-> TRUE, error |-> "RuntimeError",
          calls |-> <<"load_model", "transcribe">>]
    ELSE [raised |-> FALSE, error |-> "none",
          calls |-> <<"load_model", "transcribe">>]

\* transcribe_audio(audio_path): os.path.exists(None) raises TypeError.
transcribe_audio(path, dsk, o) ==
    IF ~path.given
    THEN [raised |-> TRUE, error |-> "TypeError", calls |-> <<>>]
    ELSE IF dsk[path.val] = "absent"
    THEN [raised |-> TRUE, error |-> "FileNotFoundError", calls |-> <<>>]
    ELSE IF o = "load_raises"
    THEN [raised |-> TRUE, error |-> "RuntimeError",
          calls |-> <<"load_model">>]
    ELSE IF o = "transcribe_raises"
    THEN [raised |-> TRUE, error |-> "RuntimeError",
          calls |-> <<"load_model", "transcribe">>]
    ELSE [raised |-> FALSE, error |-> "none",
          calls |-> <<"load_model", "transcribe">>]

\* The form untouched and no request started.
AppIdle(st) ==
    /\ stage = st
    /\ secret_key = None(<<>>)
    /\ input_source = "Video/Audio URL"
    /\ video_url = <<>>
    /\ uploaded_file = None(NoFile)
    /\ language = <<"e","n","g","l","i","s","h">>
    /\ edited_counts = DefaultCounts
    /\ disk = EmptyDir
    /\ audio_path = None(NoFile)
    /\ transcription = FALSE
    /\ outcome = "none"
    /\ trace = <<>>
    /\ failed = {}
    /\ cleanup_calls = <<>>
    /\ written = {}
    /\ ui = <<>>
    /\ whisper_calls = <<>>
    /\ escaped = FALSE
    /\ ydl_calls = <<>>
    /\ dir_exists = FALSE
    /\ call_error = "none"
    /\ a_input_file = NoFile

\* A direct call of generate_platform_content with arbitrary arguments.
InitGen ==
    /\ env \in EnvInputs
    /\ a_platforms \in PlatformArgs
    /\ a_language \in LanguageInputs
    /\ a_post_counts \in CountArgs
    /\ gpc = "entry"
    /\ GenIdle
    /\ AppIdle("direct")

NextGen ==
    \/ GenEnter
    \/ GenForPlatform
    \/ GenSend
    \/ \E r \in Responses : GenReceive(r)
    \/ GenEndPlatform
    \/ GenReturn

SpecGen == InitGen /\ [][NextGen]_vars

\* ------------------------------------------------------- app.py, one run
\* Lines 10-45: the script stops when the secret is missing.
Boot ==
    /\ stage = "boot"
    /\ IF ~Truthy(secret_key)
       THEN /\ stage' = "stopped"
            /\ ui' = Append(ui, "API Key Required")
            /\ dir_exists' = dir_exists
       ELSE /\ stage' = "form"
            /\ ui' = ui
            /\ dir_exists' = TRUE
    /\ UNCHANGED <<secret_key, input_source, video_url, uploaded_file,
                   language, edited_counts, disk, audio_path, transcription,
                   outcome, trace, failed, cleanup_calls, written,
                   whisper_calls, escaped>>
    /\ UNCHANGED gen_vars
    /\ UNCHANGED <<ydl_calls, call_error, a_input_file>>

\* Lines 107-170: the widgets' values and a click on "Generate Content".
Click(src, url, file, lang, counts) ==
    /\ stage = "form"
    /\ input_source' = src
    /\ video_url' = url
    /\ uploaded_file' = file
    /\ language' = lang
    /\ edited_counts' = counts
    /\ IF (src = "Video/Audio URL" /\ url = <<>>)
          \/ (src = "Upload File" /\ ~file.given)
       THEN /\ ui' = Append(ui, "Please provide a valid input")
            /\ stage' = "done"
       ELSE /\ ui' = ui
            /\ stage' = "acquire"
    /\ audio_path' = None(NoFile)
    /\ UNCHANGED <<secret_key, disk, transcription, outcome, trace, failed,
                   cleanup_calls, written, whisper_calls, escaped>>
    /\ UNCHANGED gen_vars
    /\ UNCHANGED ext_vars

\* Lines 181-182: audio_path = download_youtube_audio(input_source_value)
AcquireUrl(o, pick) ==
    /\ stage = "acquire"
    /\ input_source = "Video/Audio URL"
    /\ LET r == download_youtube_audio(video_url, disk, o, pick)
       IN  /\ disk' = r.disk
           /\ ydl_calls' = ydl_calls \o r.ydl
           /\ dir_exists' = (dir_exists \/ r.makedirs)
           /\ written' = written \cup r.wrote
           /\ ui' = ui \o r.ui
           /\ trace' = Append(trace, "Acquire")
           /\ IF r.raised
              THEN /\ failed' = failed \cup {"Acquire"}
                   /\ audio_path' = audio_path
                   /\ stage' = "except"
              ELSE /\ failed' = failed
                   /\ audio_path' = Some(r.path)
                   /\ stage' = "transcribe"
    /\ UNCHANGED <<secret_key, input_source, video_url, uploaded_file,
                   language, edited_counts, transcription, outcome,
                   cleanup_calls, whisper_calls, escaped>>
    /\ UNCHANGED gen_vars
    /\ UNCHANGED <<call_error, a_input_file>>

\* Lines 183-184: audio_path = save_uploaded_file(input_source_value)
AcquireUpload(o) ==
    /\ stage = "acquire"
    /\ input_source = "Upload File"
    /\ LET r == save_uploaded_file(uploaded_file.val, disk, o)
       IN  /\ disk' = r.disk
           /\ written' = written \cup r.wrote
           /\ ui' = ui \o r.ui
           /\ trace' = Append(trace, "Acquire")
           /\ failed' = IF r.path.given THEN failed ELSE failed \cup {"Acquire"}
           /\ audio_path' = r.path
           /\ stage' = "transcribe"
    /\ UNCHANGED <<secret_key, input_source, video_url, uploaded_file,
                   language, edited_counts, transcription, outcome,
                   cleanup_calls, whisper_calls, escaped>>
    /\ UNCHANGED gen_vars
    /\ UNCHANGED ext_vars

\* Lines 186-190: transcription = transcribe_audio(audio_path)
Transcribe(o) ==
    /\ stage = "transcribe"
    /\ LET r == transcribe_audio(audio_path, disk, o)
       IN  /\ whisper_calls' = whisper_calls \o r.calls
           /\ trace' = Append(trace, "Transcribe")
           /\ IF r.raised
              THEN /\ failed' = failed \cup {"Transcribe"}
                   /\ transcription' = transcription
                   /\ stage' = "except"
              ELSE /\ failed' = failed
                   /\ transcription' = TRUE
                   /\ stage' = "generate"
    /\ UNCHANGED <<secret_key, input_source, video_url, uploaded_file,
                   language, edited_counts, disk, audio_path, outcome,
                   cleanup_calls, written, ui, escaped>>
    /\ UNCHANGED gen_vars
    /\ UNCHANGED ext_vars

\* Lines 192-205: post_counts from edited_df; generate_platform_content is
\* entered with platforms = list(post_counts.keys()).
CallGenerate ==
    /\ stage = "generate"
    /\ gpc = "idle"
    /\ a_platforms' = Some(PLATFORM_KEYS)
    /\ a_language' = language
    /\ a_post_counts' = Some(edited_counts)
    /\ gpc' = "entry"
    /\ stage' = "generating"
    /\ trace' = Append(trace, "Generate")
    /\ UNCHANGED <<env, platforms, post_counts, api_key, pidx, num_posts,
                   platform_posts, platform_content, gen_result, gen_error,
                   requests, responses, outstanding>>
    /\ UNCHANGED <<secret_key, input_source, video_url, uploaded_file,
                   language, edited_counts, disk, audio_path, transcription,
                   outcome, failed, cleanup_calls, written, ui,
                   whisper_calls, escaped>>
    /\ UNCHANGED ext_vars

\* The call of line 200 returns, or its exception reaches line 222.
GenerateDone ==
    /\ stage = "generating"
    /\ gpc \in {"returned", "raised"}
    /\ IF gpc = "raised"
       THEN /\ failed' = failed \cup {"Generate"}
            /\ stage' = "except"
       ELSE /\ failed' = failed
            /\ stage' = "present"
    /\ UNCHANGED <<secret_key, input_source, video_url, uploaded_file,
                   language, edited_counts, disk, audio_path, transcription,
                   outcome, trace, cleanup_calls, written, ui,
                   whisper_calls, escaped>>
    /\ UNCHANGED gen_vars
    /\ UNCHANGED ext_vars

\* Lines 207-220: the results are rendered.
Present ==
    /\ stage = "present"
    /\ trace' = Append(trace, "Present")
    /\ ui' = Append(ui, "Content Generated Successfully!")
    /\ outcome' = "present"
    /\ stage' = "finally"
    /\ UNCHANGED <<secret_key, input_source, video_url, uploaded_file,
                   language, edited_counts, disk, audio_path, transcription,
                   failed, cleanup_calls, written, whisper_calls, escaped>>
    /\ UNCHANGED gen_vars
    /\ UNCHANGED ext_vars

\* Lines 222-225: except Exception.
HandleError ==
    /\ stage = "except"
    /\ trace' = Append(trace, "Error")
    /\ ui' = Append(ui, "An error occurred")
    /\ outcome' = "error"
    /\ stage' = "finally"
    /\ UNCHANGED <<secret_key, input_source, video_url, uploaded_file,
                   language, edited_counts, disk, audio_path, transcription,
                   failed, cleanup_calls, written, whisper_calls, escaped>>
    /\ UNCHANGED gen_vars
    /\ UNCHANGED ext_vars

\* Finally with the cleanup at the end of the try body instead: it is skipped
\* when a stage has raised.
FinallyOnSuccessOnly(remove_ok) ==
    /\ stage = "finally"
    /\ IF audio_path.given /\ outcome = "present"
       THEN LET r == cleanup_audio_file(audio_path.val, disk, remove_ok)
            IN  /\ cleanup_calls' = Append(cleanup_calls, audio_path.val)
                /\ disk' = r.disk
                /\ ui' = ui \o r.ui
                /\ escaped' = r.raised
                /\ outcome' = IF r.raised THEN "crash" ELSE outcome
       ELSE UNCHANGED <<cleanup_calls, disk, ui, escaped, outcome>>
    /\ stage' = "done"
    /\ UNCHANGED <<secret_key, input_source, video_url, uploaded_file,
                   language, edited_counts, audio_path, transcription, trace,
                   failed, written, whisper_calls>>
    /\ UNCHANGED gen_vars
    /\ UNCHANGED ext_vars

\* Lines 227-230: finally: if audio_path: cleanup_audio_file(audio_path)
Finally(remove_ok) ==
    /\ stage = "finally"
    /\ IF audio_path.given
       THEN LET r == cleanup_audio_file(audio_path.val, disk, remove_ok)
            IN  /\ cleanup_calls' = Append(cleanup_calls, audio_path.val)
                /\ disk' = r.disk
                /\ ui' = ui \o r.ui
                /\ escaped' = r.raised
                /\ outcome' = IF r.raised THEN "crash" ELSE outcome
       ELSE UNCHANGED <<cleanup_calls, disk, ui, escaped, outcome>>
    /\ stage' = "done"
    /\ UNCHANGED <<secret_key, input_source, video_url, uploaded_file,
                   language, edited_counts, audio_path, transcription, trace,
                   failed, written, whisper_calls>>
    /\ UNCHANGED gen_vars
    /\ UNCHANGED ext_vars

\* One script run of app.py, from its first line.
Init ==
    /\ secret_key \in SecretInputs
    /\ env \in AppEnvInputs
    /\ dir_exists \in BOOLEAN
    /\ disk \in IF dir_exists THEN InitialDisks ELSE {EmptyDir}
    /\ ydl_calls = <<>>
    /\ call_error = "none"
    /\ a_input_file = NoFile
    /\ stage = "boot"
    /\ input_source = "Video/Audio URL"
    /\ video_url = <<>>
    /\ uploaded_file = None(NoFile)
    /\ language = <<"e","n","g","l","i","s","h">>
    /\ edited_counts = DefaultCounts
    /\ audio_path = None(NoFile)
    /\ transcription = FALSE
    /\ outcome = "none"
    /\ trace = <<>>
    /\ failed = {}
    /\ cleanup_calls = <<>>
    /\ written = {}
    /\ ui = <<>>
    /\ whisper_calls = <<>>
    /\ escaped = FALSE
    /\ a_platforms = None(<<>>)
    /\ a_language = <<>>
    /\ a_post_counts = None(EmptyDict)
    /\ gpc = "idle"
    /\ GenIdle

Next ==
    \/ Boot
    \/ \E in \in SourceInputs, lang \in AppLanguages, counts \in AppCounts :
            Click(in.src, in.url, in.file, lang, counts)
    \/ \E o \in DownloadOutcomes, pick \in Files : AcquireUrl(o, pick)
    \/ \E o \in SaveOutcomes : AcquireUpload(o)
    \/ \E o \in TranscribeOutcomes : Transcribe(o)
    \/ CallGenerate
    \/ GenEnter
    \/ GenForPlatform
    \/ GenSend
    \/ \E r \in Responses : GenReceive(r)
    \/ GenEndPlatform
    \/ GenReturn
    \/ GenerateDone
    \/ Present
    \/ HandleError
    \/ \E remove_ok \in BOOLEAN : Finally(remove_ok)

Spec == Init /\ [][Next]_vars

\* ------------------------------------- the stage functions called directly
\* Nothing of the form, the generator or an earlier stage is in play.
StageCallIdle ==
    /\ secret_key = None(<<>>)
    /\ env = Environ(None(<<>>), None(<<>>))
    /\ input_source = "Video/Audio URL"
    /\ uploaded_file = None(NoFile)
    /\ language = <<"e","n","g","l","i","s","h">>
    /\ edited_counts = DefaultCounts
    /\ transcription = FALSE
    /\ outcome = "none"
    /\ trace = <<>>
    /\ failed = {}
    /\ cleanup_calls = <<>>
    /\ written = {}
    /\ ui = <<>>
    /\ whisper_calls = <<>>
    /\ escaped = FALSE
    /\ ydl_calls = <<>>
    /\ call_error = "none"
    /\ a_platforms = None(<<>>)
    /\ a_language = <<>>
    /\ a_post_counts = None(EmptyDict)
    /\ gpc = "idle"
    /\ GenIdle

\* URLs a caller can hand to download_youtube_audio.
DirectUrlInputs ==
    UrlInputs \cup
    { <<"https://", "youtu.be", "/", "abc">>,
      <<"https://", "www.youtube.com">>,
      <<"http://", "www.youtube.com", "/", "watch?v=1">>,
      <<"https://", "youtube.com", "/", "watch?v=1">>,
      <<"https://", "example.com", "/", "https://", "www.youtube.com", "/">> }

\* The output directory before the call: missing, or holding earlier files.
DirectDisks ==
    { [EmptyDir EXCEPT ![OldMp3] = c, ![ClipMp3] = d] :
        c \in {"absent", "empty", "data"}, d \in {"absent", "data"} }

\* Files a caller can hand to convert_to_mp3, and the directory before.
ConvertInputs == {ClipRaw, ClipMp3}
ConvertDisks ==
    { [EmptyDir EXCEPT ![ClipRaw] = c, ![ClipMp3] = d] :
        c \in {"absent", "data"}, d \in {"absent", "data"} }

\* A direct call of download_youtube_audio or of convert_to_mp3.
InitDownload ==
    /\ stage \in {"call_download", "call_convert"}
    /\ dir_exists \in BOOLEAN
    /\ IF stage = "call_download"
       THEN /\ video_url \in DirectUrlInputs
            /\ a_input_file = NoFile
            /\ disk \in IF dir_exists THEN DirectDisks ELSE {EmptyDir}
       ELSE /\ video_url = <<>>
            /\ a_input_file \in ConvertInputs
            /\ disk \in IF dir_exists THEN ConvertDisks ELSE {EmptyDir}
    /\ audio_path = None(NoFile)
    /\ StageCallIdle

\* download_youtube_audio(url), lines 23-94, called on its own.
DirectDownload(o, pick) ==
    /\ stage = "call_download"
    /\ LET r == download_youtube_audio(video_url, disk, o, pick)
       IN  /\ disk' = r.disk
           /\ written' = written \cup r.wrote
           /\ ui' = ui \o r.ui
           /\ ydl_calls' = ydl_calls \o r.ydl
           /\ dir_exists' = (dir_exists \/ r.makedirs)
           /\ call_error' = r.error
           /\ audio_path' = IF r.raised THEN audio_path ELSE Some(r.path)
    /\ stage' = "download_returned"
    /\ UNCHANGED <<secret_key, input_source, video_url, uploaded_file,
                   language, edited_counts, transcription, outcome, trace,
                   failed, cleanup_calls, whisper_calls, escaped>>
    /\ UNCHANGED a_input_file
    /\ UNCHANGED gen_vars

\* convert_to_mp3(input_file), lines 113-156, called on its own; line 126
\* creates the output directory first.
DirectConvert(o) ==
    /\ stage = "call_convert"
    /\ LET r == convert_to_mp3(a_input_file, disk, o)
       IN  /\ disk' = r.disk
           /\ written' = written \cup r.wrote
           /\ ui' = ui \o r.ui
           /\ call_error' = r.error
           /\ audio_path' = IF r.raised THEN audio_path ELSE Some(r.path)
    /\ dir_exists' = TRUE
    /\ stage' = "convert_returned"
    /\ UNCHANGED <<secret_key, input_source, video_url, uploaded_file,
                   language, edited_counts, transcription, outcome, trace,
                   failed, cleanup_calls, whisper_calls, escaped>>
    /\ UNCHANGED <<ydl_calls, a_input_file>>
    /\ UNCHANGED gen_vars

NextDownload ==
    \/ \E o \in DownloadOutcomes, pick \in Files : DirectDownload(o, pick)
    \/ \E o \in ConvertOutcomes : DirectConvert(o)

SpecDownload == InitDownload /\ [][NextDownload]_vars

\* Paths a caller can hand to transcribe_audio, None included.
DirectPaths == {None(NoFile)} \cup {Some(f) : f \in Files}

InitTranscribe ==
    /\ stage = "call_transcribe"
    /\ audio_path \in DirectPaths
    /\ disk \in [Files -> {"absent", "empty", "data"}]
    /\ dir_exists = TRUE
    /\ video_url = <<>>
    /\ a_input_file = NoFile
    /\ StageCallIdle

\* transcribe_audio(audio_path), lines 5-33, called on its own.
DirectTranscribe(o) ==
    /\ stage = "call_transcribe"
    /\ LET r == transcribe_audio(audio_path, disk, o)
       IN  /\ whisper_calls' = whisper_calls \o r.calls
           /\ call_error' = r.error
           /\ transcription' = ~r.raised
    /\ stage' = "transcribe_returned"
    /\ UNCHANGED <<secret_key, input_source, video_url, uploaded_file,
                   language, edited_counts, disk, audio_path, outcome, trace,
                   failed, cleanup_calls, written, ui, escaped>>
    /\ UNCHANGED <<ydl_calls, dir_exists, a_input_file>>
    /\ UNCHANGED gen_vars

NextTranscribe == \E o \in TranscribeOutcomes : DirectTranscribe(o)

SpecTranscribe == InitTranscribe /\ [][NextTranscribe]_vars

\* ---------------------------------------------------------------- claims
\* The arguments of the call as the caller gave them.
Requested == IF a_platforms.given THEN a_platforms.val ELSE PLATFORM_KEYS
Supported == {"instagram", "x", "linkedin", "facebook"}
ExpectedCount(p) ==
    IF a_post_counts.given /\ p \in DOMAIN a_post_counts.val
    THEN a_post_counts.val[p].n ELSE 1
ValidArgs ==
    /\ Range(Requested) \subseteq Supported
    /\ Lower(a_language) \in LANGUAGE_SYSTEM_PROMPTS
KeyInUse ==
    IF env.OPENROUTER_API_KEY.given /\ env.OPENROUTER_API_KEY.val # <<>>
    THEN env.OPENROUTER_API_KEY ELSE env.OPENAI_API_KEY
UsableCredential ==
    /\ KeyInUse.given
    /\ Len(Strip(KeyInUse.val)) >= MinKeyLen
NoCredential ==
    ~env.OPENROUTER_API_KEY.given /\ ~env.OPENAI_API_KEY.given
DirectCall == stage = "direct"

\* The indices of the requests chosen by a set of positions of the list,
\* in the order they were issued.
CallsAt(positions) == {k \in 1..Len(requests) : requests[k].pos \in positions}
NthOf(K, i) == CHOOSE k \in K : Cardinality({j \in K : j <= k}) = i
PositionsOf(p) == {k \in 1..Len(Requested) : Requested[k] = p}
LastPosition(p) == CHOOSE k \in PositionsOf(p) : \A j \in PositionsOf(p) : j <= k

\* C1 as stated: with a usable credential the returned dict holds, for
\* every requested platform, exactly post_counts[platform] entries (1 when
\* absent), entry i being the result of the i-th call issued for that
\* platform.
C1_EntriesInCallOrder ==
    (DirectCall /\ gpc = "returned" /\ UsableCredential) =>
        \A p \in Range(Requested) :
            /\ p \in DOMAIN gen_result
            /\ Len(gen_result[p]) = ExpectedCount(p)
            /\ \A i \in 1..Len(gen_result[p]) :
                /\ Cardinality(CallsAt(PositionsOf(p))) >= i
                /\ gen_result[p][i] =
                    PostEntry(responses[NthOf(CallsAt(PositionsOf(p)), i)])

\* C1 amended: as C1, entry i being the result of the i-th call issued for
\* the platform's last occurrence in the platforms list (the calls issued for
\* an earlier occurrence of a repeated platform are made and discarded).
C1_EntriesOfLastOccurrence ==
    (DirectCall /\ gpc = "returned" /\ UsableCredential) =>
        \A p \in Range(Requested) :
            /\ p \in DOMAIN gen_result
            /\ Len(gen_result[p]) = ExpectedCount(p)
            /\ Cardinality(CallsAt({LastPosition(p)})) = ExpectedCount(p)
            /\ \A i \in 1..Len(gen_result[p]) :
                gen_result[p][i] =
                    PostEntry(responses[NthOf(CallsAt({LastPosition(p)}), i)])

\* A call for two different platforms has returned a list of two entries
\* of which the first is a placeholder and the second a generated text.
C1_Witness ==
    /\ DirectCall /\ gpc = "returned" /\ UsableCredential
    /\ Cardinality(Range(Requested)) = 2
    /\ \E p \in Range(Requested) :
        /\ Len(gen_result[p]) = 2
        /\ gen_result[p][1].kind # "text"
        /\ gen_result[p][2].kind = "text"

\* C2 as stated: with neither variable set, every requested platform gets
\* post_counts[platform] placeholders, no request is issued and nothing is
\* raised.
C2_PlaceholderPerPost ==
    (DirectCall /\ NoCredential /\ ValidArgs /\ gpc # "entry") =>
        /\ gpc = "returned"
        /\ requests = <<>>
        /\ \A p \in Range(Requested) :
            /\ p \in DOMAIN gen_result
            /\ Len(gen_result[p]) = ExpectedCount(p)
            /\ \A i \in 1..Len(gen_result[p]) : gen_result[p][i] = Unavailable

\* C3: an unsupported platform or language ends the call in a ValueError
\* with no request issued, whatever the credential and the other arguments.
C3_ValidationBeforeNetwork ==
    (DirectCall /\ ~ValidArgs) =>
        /\ requests = <<>>
        /\ outstanding = 0
        /\ gpc \in {"entry", "raised"}
        /\ gpc = "raised" => gen_error = "ValueError"

\* A call with a usable credential and supported platforms was refused for
\* its language.
C3_Witness ==
    /\ DirectCall /\ gpc = "raised" /\ UsableCredential
    /\ Range(Requested) \subseteq Supported
    /\ Requested # <<>>
    /\ Lower(a_language) \notin LANGUAGE_SYSTEM_PROMPTS

\* The requests a call has to issue: for each position of the list in
\* turn, one per post.
RECURSIVE RequestsFrom(_)
RequestsFrom(k) ==
    IF k > Len(Requested) THEN <<>>
    ELSE [i \in 1..ExpectedCount(Requested[k]) |->
            [pos |-> k, platform |-> Requested[k], post |-> i]]
         \o RequestsFrom(k + 1)
ExpectedRequests == RequestsFrom(1)
Issued == [k \in 1..Len(requests) |->
            [pos |-> requests[k].pos, platform |-> requests[k].platform,
             post |-> requests[k].post]]

\* What the answer to a call must have appended: the trimmed text, or a
\* placeholder.
AppendedFor(r, e) ==
    IF r = OkResponse THEN e = Entry("text", 0, <<"P", "o", "s", "t">>)
    ELSE e.kind # "text"

C4_Step ==
    (gpc = "awaiting" /\ gpc' # "awaiting") =>
        /\ Len(responses') = Len(responses) + 1
        /\ Len(platform_posts') = Len(platform_posts) + 1
        /\ SubSeq(platform_posts', 1, Len(platform_posts)) = platform_posts
        /\ AppendedFor(responses'[Len(responses')],
                       platform_posts'[Len(platform_posts')])
        /\ platform_content' = platform_content
        /\ gen_error' = "none"
        /\ gpc' = "for_post"

C4_BatchCompletes ==
    (DirectCall /\ UsableCredential /\ ValidArgs /\ gpc # "entry") =>
        /\ gpc # "raised"
        /\ gpc = "returned" =>
            /\ Len(responses) = Len(ExpectedRequests)
            /\ \A p \in Range(Requested) :
                /\ Len(gen_result[p]) = ExpectedCount(p)
                /\ \A i \in 1..Len(gen_result[p]) :
                    AppendedFor(responses[NthOf(CallsAt({LastPosition(p)}), i)],
                                gen_result[p][i])

\* C4: a failed call appends exactly one placeholder at its position and
\* leaves the entries already made untouched; the batch is never aborted:
\* every post of every platform is attempted and each entry is decided by
\* its own call alone.
C4_FailureIsPerPost == [][C4_Step]_vars /\ []C4_BatchCompletes

\* A batch over two platforms whose first call failed has run to its end
\* with a later call succeeding.
C4_Witness ==
    /\ DirectCall /\ gpc = "returned"
    /\ Len(responses) >= 3
    /\ IsFault(responses[1])
    /\ responses[Len(responses)] = OkResponse
    /\ requests[1].platform # requests[Len(requests)].platform

\* C10: with a usable credential the requests issued are exactly one per
\* requested post, in the order of the platforms list and of the posts, never
\* a second one for the same post, never two at a time.
C10_OneRequestPerPost ==
    (DirectCall /\ UsableCredential /\ ValidArgs) =>
        /\ Len(Issued) <= Len(ExpectedRequests)
        /\ Issued = SubSeq(ExpectedRequests, 1, Len(Issued))
        /\ outstanding \in {0, 1}
        /\ outstanding = Len(requests) - Len(responses)
        /\ gpc = "returned" => Issued = ExpectedRequests

\* A call has returned after three or more requests, for two list positions,
\* one of which failed.
C10_Witness ==
    /\ DirectCall /\ gpc = "returned" /\ UsableCredential
    /\ Len(requests) >= 3
    /\ requests[1].pos # requests[Len(requests)].pos
    /\ \E k \in 1..Len(responses) : IsFault(responses[k])

\* C5: when acquisition returned a path, cleanup_audio_file is called exactly
\* once, with that path, however the run ends, and not before generation
\* has returned or a stage has failed.
C5_CleanupExactlyOnce ==
    /\ Len(cleanup_calls) <= 1
    /\ cleanup_calls # <<>> =>
        /\ audio_path.given
        /\ cleanup_calls[1] = audio_path.val
        /\ stage = "done"
        /\ gpc = "returned" \/ failed # {}
    /\ (stage = "done" /\ audio_path.given) => Len(cleanup_calls) = 1
    /\ (stage = "done" /\ ~audio_path.given) => cleanup_calls = <<>>

\* A run whose generation raised has ended with the one cleanup call made.
C5_Witness ==
    /\ stage = "done"
    /\ outcome = "error"
    /\ "Generate" \in failed
    /\ Len(cleanup_calls) = 1

\* C6 as stated: when a run has ended, no file it wrote is left in the
\* directory.
C6_NoFileRemains ==
    stage = "done" => \A f \in written : disk[f] = "absent"

\* The stages a run may have started so far: a prefix of the four, then
\* possibly Error.
StageOrder == <<"Acquire", "Transcribe", "Generate", "Present">>
InStageOrder(t) ==
    \/ /\ Len(t) <= Len(StageOrder)
       /\ t = SubSeq(StageOrder, 1, Len(t))
    \/ /\ t # <<>>
       /\ t[Len(t)] = "Error"
       /\ Len(t) - 1 <= Len(StageOrder)
       /\ SubSeq(t, 1, Len(t) - 1) = SubSeq(StageOrder, 1, Len(t) - 1)

\* C7 as stated: the stages start in the order Acquire, Transcribe,
\* Generate, Present, none twice, and after a stage has failed (a failure
\* to save the upload included) nothing but Error follows.
C7_FailureGoesStraightToError ==
    /\ InStageOrder(trace)
    /\ \A i, j \in 1..Len(trace) :
        (i < j /\ trace[i] \in failed) => trace[j] = "Error"

\* C8 as stated: with no credential configured the application does not
\* refuse to run.
C8_NeverRefusesToRun ==
    (~Truthy(secret_key) /\ NoCredential) => stage # "stopped"

\* C9: a failed deletion is only warned: no exception leaves the run and the
\* outcome shown (Present or Error) stays as it was before the cleanup.
C9_CleanupFailureOnlyWarned ==
    /\ ~escaped
    /\ (stage = "done" /\ trace # <<>>) =>
        outcome = IF trace[Len(trace)] = "Present" THEN "present" ELSE "error"

\* A run that presented its results has ended with the deletion having
\* failed.
C9_Witness ==
    /\ stage = "done"
    /\ ui # <<>>
    /\ ui[Len(ui)] = "Could not delete audio file"
    /\ trace[Len(trace)] = "Present"
    /\ disk[audio_path.val] # "absent"

\* C11 as stated: the path acquisition returns, which the run then
\* transcribes and hands to cleanup_audio_file, is a file this run wrote,
\* whatever the directory held before.
C11_OwnArtifactOnly ==
    /\ audio_path.given => audio_path.val \in written
    /\ \A k \in 1..Len(cleanup_calls) : cleanup_calls[k] \in written

\* The URL begins with one of the two link forms the downloader supports.
ResemblesSupportedLink(url) ==
    /\ Len(url) >= 3
    /\ url[1] = "https://"
    /\ url[2] \in {"www.youtube.com", "youtu.be"}
    /\ url[3] = "/"

C12_Step ==
    (stage = "call_download" /\ stage' = "download_returned"
        /\ ~ResemblesSupportedLink(video_url))
    => /\ call_error' = "ValueError"
       /\ ~audio_path'.given
       /\ ydl_calls' = <<>>
       /\ dir_exists' = dir_exists
       /\ disk' = disk
       /\ written' = {}

\* C12: download_youtube_audio rejects a URL that does not begin with a
\* supported link form with a ValueError before yt_dlp is called: no
\* extract_info or download call is made, the output directory is not
\* created, and no file in it is created or changed.
C12_InvalidUrlRejectedFirst == [][C12_Step]_vars

\* A rejected URL with the output directory still missing after the call.
C12_Witness ==
    /\ stage = "download_returned"
    /\ video_url # <<>>
    /\ ~ResemblesSupportedLink(video_url)
    /\ call_error = "ValueError"
    /\ ydl_calls = <<>>
    /\ ~dir_exists

CountOf(seq, x) == Cardinality({k \in 1..Len(seq) : seq[k] = x})

\* C13: a call of transcribe_audio is one attempt. A path that does not
\* exist raises FileNotFoundError with no whisper call made; a path that
\* exists either yields the transcription or raises one RuntimeError, after
\* load_model alone or load_model then transcribe; neither whisper call is
\* ever made twice in a call.
C13_SingleAttempt ==
    stage = "transcribe_returned" =>
        /\ CountOf(whisper_calls, "load_model") <= 1
        /\ CountOf(whisper_calls, "transcribe") <= 1
        /\ (audio_path.given /\ disk[audio_path.val] = "absent")
             => /\ call_error = "FileNotFoundError"
                /\ whisper_calls = <<>>
                /\ ~transcription
        /\ (audio_path.given /\ disk[audio_path.val] # "absent")
             => /\ call_error \in {"none", "RuntimeError"}
                /\ transcription <=> call_error = "none"
                /\ whisper_calls \in {<<"load_model">>,
                                      <<"load_model", "transcribe">>}
                /\ call_error = "none"
                     => whisper_calls = <<"load_model", "transcribe">>

\* A missing path was refused before the model was loaded.
C13_Witness ==
    /\ stage = "transcribe_returned"
    /\ audio_path.given
    /\ disk[audio_path.val] = "absent"
    /\ call_error = "FileNotFoundError"
    /\ whisper_calls = <<>>

====
